---- MODULE Spec2Model ----
(***************************************************************************)
(* Model of WebsiteStatusChecker (src/WebsiteStatusChecker/src/main.rs):   *)
(* run_checks splits the URL list with urls.chunks(workers), spawns one    *)
(* thread per chunk, every thread runs check_website (the retry loop) on   *)
(* each URL of its chunk and sends the WebsiteStatus into an unbounded     *)
(* mpsc channel; the main thread joins every handle, drops its sender and  *)
(* drains the channel.                                                     *)
(***************************************************************************)
EXTENDS Integers, Sequences, FiniteSets, TLC

\* ---------------------------------------------------------------- bounds
MaxUrls    == 3   \* longest URL list
MaxWorkers == 3   \* largest `workers` argument
MaxProbeTime == 8 \* most time (ms) the attempts of one run can take:
                  \* |urls| * (retries + 1) * (timeout + MaxPrintTime)
MaxOversleep == 1 \* most time (ms) a sleep lasts beyond what was asked
MaxPrintTime == 1 \* most time (ms) a println! of an attempt takes

\* ------------------------------------------------------- input alphabets
UrlNames == {"a", "b"}

RetryDelay == 100    \* ms slept between two attempts

\* Result<u16, String>: Ok(code) or Err(text)
Ok(code) == [ok |-> TRUE,  code |-> code, err |-> ""]
Err(text) == [ok |-> FALSE, code |-> 0,    err |-> text]

\* what one client.get(url).timeout(t).send() can give back: a completed
\* exchange with any status code, or a transport error text
ProbeOutcomes == {Ok(200), Ok(503), Err("timeout"), Err("refused")}

\* the times one GET can take on the logical clock (whole ms): a request
\* that times out takes the timeout it was given, every other exchange ends
\* at some moment before that
ProbeTimes(result, timeout) ==
    IF result = Err("timeout") THEN {timeout} ELSE 0..(timeout - 1)

\* the time println!("Attempt ...") takes inside the timed region: as long
\* as stdout makes it wait
PrintTimes == 0..MaxPrintTime

\* a sleep of 10 ms instead of 100 ms
SleepTimesShort == {10, 11}

\* thread::sleep(d) sleeps at least d, and as much longer as the scheduler
\* makes it
SleepTimes == RetryDelay..(RetryDelay + MaxOversleep)

\* --------------------------------------------------------- pure helpers
Min(a, b) == IF a < b THEN a ELSE b

\* chunks_exact(n): the shorter last chunk is left out
RECURSIVE ChunksExact(_, _)
ChunksExact(s, n) ==
    IF Len(s) < n THEN <<>>
    ELSE <<SubSeq(s, 1, n)>> \o ChunksExact(SubSeq(s, n + 1, Len(s)), n)

\* a split whose last piece is "whatever is left", also when nothing is left
RECURSIVE ChunksWithRest(_, _)
ChunksWithRest(s, n) ==
    IF Len(s) <= n THEN <<s>>
    ELSE <<SubSeq(s, 1, n)>> \o ChunksWithRest(SubSeq(s, n + 1, Len(s)), n)

\* n chunks of ceil(len / n) elements instead of chunks of n elements
RECURSIVE ChunksOfSize(_, _)
ChunksOfSize(s, size) ==
    IF Len(s) = 0 THEN <<>>
    ELSE <<SubSeq(s, 1, Min(size, Len(s)))>>
         \o ChunksOfSize(SubSeq(s, Min(size, Len(s)) + 1, Len(s)), size)
ChunksByCount(s, n) == ChunksOfSize(s, (Len(s) + n - 1) \div n)

\* slice::chunks(n): consecutive, non-overlapping chunks of n elements, the
\* last one possibly shorter; no chunk for an empty slice
RECURSIVE Chunks(_, _)
Chunks(s, n) ==
    IF Len(s) = 0 THEN <<>>
    ELSE <<SubSeq(s, 1, Min(n, Len(s)))>>
         \o Chunks(SubSeq(s, Min(n, Len(s)) + 1, Len(s)), n)

\* exit test that counts one attempt too many
ShouldReturnOffByOne(result, attempt, retries) == result.ok \/ attempt > retries

\* exit test that retries on HTTP error codes as well
ShouldReturnHttpSuccess(result, attempt, retries) ==
    (result.ok /\ result.code < 400) \/ attempt >= retries

\* exit test that looks at the attempt count only
ShouldReturnIgnoresOk(result, attempt, retries) == attempt >= retries

\* the exit test of the retry loop
ShouldReturn(result, attempt, retries) == result.ok \/ attempt >= retries

\* start_time taken at the top of every iteration: only the last attempt counts
ElapsedOfLastAttempt(h, d) == d

\* start_time.elapsed() when an attempt that took d completes: the time
\* since check_website was entered
Elapsed(h, d) == h.elapsed + d

\* check_website entered: start_time taken, attempt = 0
NewWorker(chunk) ==
    [chunk |-> chunk, idx |-> 1, pc |-> "attempt", attempt |-> 0,
     elapsed |-> 0, probes |-> <<>>, times |-> <<>>, sleeps |-> 0, slept |-> 0,
     status |-> [url |-> "", action_status |-> Err(""), response_time |-> 0]]

VARIABLES
    urls,      \* run_checks argument
    workers,   \* run_checks argument
    retries,   \* run_checks argument
    timeout,   \* run_checks argument (ms)
    main_pc,   \* position of the main thread inside run_checks
    handles,   \* spawned threads, in spawn order, with each thread's locals
    joined,    \* number of handles already joined
    senders,   \* live Sender handles of the channel (tx and its clones)
    channel,   \* messages in flight in the mpsc channel
    results,   \* the Vec collected from rx.iter()
    statuses,     \* save_results_to_json argument
    json_string,  \* save_results_to_json: the String being built
    json_pc,      \* save_results_to_json: position in the function
    json_i,       \* save_results_to_json: statuses already formatted
    file_lines,   \* read_urls_from_file: the lines of the file
    line_no,      \* read_urls_from_file: lines already taken from reader.lines()
    urls_read,    \* read_urls_from_file: the Vec being collected
    read_errs     \* read_urls_from_file: times the failing read was tried again

\* state of run_checks and of its threads
runvars == <<urls, workers, retries, timeout, main_pc, handles, joined, senders, channel, results>>
\* state of save_results_to_json
jsonvars == <<statuses, json_string, json_pc, json_i>>
\* state of read_urls_from_file
readvars == <<file_lines, line_no, urls_read, read_errs>>

vars == <<runvars, jsonvars, readvars>>

\* save_results_to_json is not running
JsonIdle == statuses = <<>> /\ json_string = "" /\ json_pc = "idle" /\ json_i = 0

\* read_urls_from_file is not running
ReadIdle == file_lines = <<>> /\ line_no = 0 /\ urls_read = <<>> /\ read_errs = 0

\* run_checks is not running
RunIdle ==
    /\ urls = <<>> /\ workers = 1 /\ retries = 0 /\ timeout = 1 /\ main_pc = "idle"
    /\ handles = <<>> /\ joined = 0 /\ senders = 0 /\ channel = <<>> /\ results = <<>>

RECURSIVE SeqsUpTo(_, _)
SeqsUpTo(S, n) ==
    IF n = 0 THEN {<<>>}
    ELSE SeqsUpTo(S, n - 1) \cup
         {Append(s, x) : s \in {t \in SeqsUpTo(S, n - 1) : Len(t) = n - 1}, x \in S}

Init ==
    /\ urls \in SeqsUpTo(UrlNames, MaxUrls)
    /\ workers \in 1..MaxWorkers
    /\ retries \in 0..(MaxProbeTime - 1)
    /\ timeout \in 1..MaxProbeTime
    /\ (IF urls = <<>> THEN 1 ELSE Len(urls)) * (retries + 1) * (timeout + MaxPrintTime) <= MaxProbeTime
    /\ main_pc = "spawn"
    /\ handles = <<>>
    /\ joined = 0
    /\ senders = 1
    /\ channel = <<>>
    /\ results = <<>>
    /\ JsonIdle
    /\ ReadIdle

\* the threads run as long as the process lives
Running == main_pc # "exited"

\* ------------------------------------------------------------ main thread
\* one iteration of `for chunk in urls.chunks(workers)`
SpawnWorker ==
    /\ main_pc = "spawn"
    /\ Len(handles) < Len(Chunks(urls, workers))
    /\ handles' = Append(handles, NewWorker(Chunks(urls, workers)[Len(handles) + 1]))
    /\ senders' = senders + 1
    /\ UNCHANGED <<urls, workers, retries, timeout, main_pc, joined, channel, results>>
    /\ UNCHANGED <<jsonvars, readvars>>

\* the for loop is over: "Waiting for workers to complete..."
StartJoining ==
    /\ main_pc = "spawn"
    /\ Len(handles) = Len(Chunks(urls, workers))
    /\ main_pc' = "join"
    /\ UNCHANGED <<urls, workers, retries, timeout, handles, joined, senders, channel, results>>
    /\ UNCHANGED <<jsonvars, readvars>>

\* a join that does not wait
JoinReturnsAtOnce(h) == TRUE

\* handle.join() returns once the thread has ended
JoinReturns(h) == h.pc = "finished"

Join ==
    /\ main_pc = "join"
    /\ joined < Len(handles)
    /\ JoinReturns(handles[joined + 1])
    /\ joined' = joined + 1
    /\ UNCHANGED <<urls, workers, retries, timeout, main_pc, handles, senders, channel, results>>
    /\ UNCHANGED <<jsonvars, readvars>>

\* the main thread keeps its sender alive
DropTxForgotten ==
    /\ main_pc = "join"
    /\ joined = Len(handles)
    /\ main_pc' = "collect"
    /\ UNCHANGED <<urls, workers, retries, timeout, handles, joined, senders, channel, results>>
    /\ UNCHANGED <<jsonvars, readvars>>

\* drop(tx); "All workers finished processing!"
DropTx ==
    /\ main_pc = "join"
    /\ joined = Len(handles)
    /\ senders' = senders - 1
    /\ main_pc' = "collect"
    /\ UNCHANGED <<urls, workers, retries, timeout, handles, joined, channel, results>>
    /\ UNCHANGED <<jsonvars, readvars>>

\* a receive that takes the newest message
RecvNewest ==
    /\ main_pc = "collect"
    /\ channel # <<>>
    /\ results' = Append(results, channel[Len(channel)])
    /\ channel' = SubSeq(channel, 1, Len(channel) - 1)
    /\ UNCHANGED <<urls, workers, retries, timeout, main_pc, handles, joined, senders>>
    /\ UNCHANGED <<jsonvars, readvars>>

\* rx lives from mpsc::channel() until run_checks is left, by its return or
\* by the unwinding of a panic
RxAlive == main_pc \notin {"done", "panicked", "exited"}

\* rx.iter() yields the next message
Recv ==
    /\ main_pc = "collect"
    /\ channel # <<>>
    /\ results' = Append(results, Head(channel))
    /\ channel' = Tail(channel)
    /\ UNCHANGED <<urls, workers, retries, timeout, main_pc, handles, joined, senders>>
    /\ UNCHANGED <<jsonvars, readvars>>

\* rx.iter() ends: the channel is empty and every Sender is gone
Disconnected == channel = <<>> /\ senders = 0

Return ==
    /\ main_pc = "collect"
    /\ Disconnected
    /\ main_pc' = "done"
    /\ UNCHANGED <<urls, workers, retries, timeout, handles, joined, senders, channel, results>>
    /\ UNCHANGED <<jsonvars, readvars>>

\* --------------------------------------------------------- worker threads
Url(h) == h.chunk[h.idx]

\* one iteration of the loop of check_website: the println!, the GET, then
\* the exit test; d is the time the attempt takes
Probe(w) ==
    /\ Running
    /\ w \in 1..Len(handles)
    /\ handles[w].pc = "attempt"
    /\ \E result \in ProbeOutcomes :
       \E d \in {p + g : p \in PrintTimes, g \in ProbeTimes(result, timeout)} :
         LET h == handles[w]
             t == Elapsed(h, d)
         IN  handles' = [handles EXCEPT ![w] =
               IF ShouldReturn(result, h.attempt, retries)
               THEN [h EXCEPT !.pc = "send",
                              !.elapsed = t,
                              !.probes = Append(h.probes, result),
                              !.times = Append(h.times, d),
                              !.status = [url |-> Url(h),
                                          action_status |-> result,
                                          response_time |-> t]]
               ELSE [h EXCEPT !.pc = "sleep",
                              !.elapsed = t,
                              !.probes = Append(h.probes, result),
                              !.times = Append(h.times, d),
                              !.attempt = h.attempt + 1]]
    /\ UNCHANGED <<urls, workers, retries, timeout, main_pc, joined, senders, channel, results>>
    /\ UNCHANGED <<jsonvars, readvars>>

\* the retry goes on without the sleep
SleepSkipped(w) ==
    /\ Running
    /\ w \in 1..Len(handles)
    /\ handles[w].pc = "sleep"
    /\ handles' = [handles EXCEPT ![w] = [@ EXCEPT !.pc = "attempt"]]
    /\ UNCHANGED <<urls, workers, retries, timeout, main_pc, joined, senders, channel, results>>
    /\ UNCHANGED <<jsonvars, readvars>>

\* std::thread::sleep(Duration::from_millis(100))
Sleep(w) ==
    /\ Running
    /\ w \in 1..Len(handles)
    /\ handles[w].pc = "sleep"
    /\ \E s \in SleepTimes :
         handles' = [handles EXCEPT ![w] =
               [@ EXCEPT !.pc = "attempt", !.elapsed = @ + s,
                         !.sleeps = @ + 1, !.slept = @ + s]]
    /\ UNCHANGED <<urls, workers, retries, timeout, main_pc, joined, senders, channel, results>>
    /\ UNCHANGED <<jsonvars, readvars>>

\* tx.send(status), then the next URL of the chunk or the end of the thread
\* (which drops the thread's clone of tx)
Send(w) ==
    /\ Running
    /\ w \in 1..Len(handles)
    /\ handles[w].pc = "send"
    /\ RxAlive
    /\ channel' = Append(channel, handles[w].status)
    /\ LET h == handles[w]
       IN  IF h.idx < Len(h.chunk)
           THEN /\ handles' = [handles EXCEPT ![w] =
                      [NewWorker(h.chunk) EXCEPT !.idx = h.idx + 1]]
                /\ senders' = senders
           ELSE /\ handles' = [handles EXCEPT ![w] =
                      [NewWorker(h.chunk) EXCEPT !.idx = h.idx + 1, !.pc = "finished"]]
                /\ senders' = senders - 1
    /\ UNCHANGED <<urls, workers, retries, timeout, main_pc, joined, results>>
    /\ UNCHANGED <<jsonvars, readvars>>

Next ==
    \/ SpawnWorker
    \/ StartJoining
    \/ Join
    \/ DropTx
    \/ Recv
    \/ Return
    \/ \E w \in 1..MaxUrls : Probe(w)
    \/ \E w \in 1..MaxUrls : Sleep(w)
    \/ \E w \in 1..MaxUrls : Send(w)

Spec == Init /\ [][Next]_vars

\* --------------------------------------------------- save_results_to_json
MaxStatuses == 2   \* longest slice given to save_results_to_json

\* {:?} of a Duration of whole milliseconds: "0ns", "102ms", "3s", "3.101s"
\* (the fraction of a second loses its trailing zeros)
DurationDebug(ms) ==
    IF ms = 0 THEN "0ns"
    ELSE IF ms < 1000 THEN ToString(ms) \o "ms"
    ELSE LET f  == ms % 1000
             d1 == f \div 100
             d2 == (f \div 10) % 10
             d3 == f % 10
         IN  ToString(ms \div 1000)
             \o (IF f = 0 THEN ""
                 ELSE "." \o ToString(d1)
                      \o (IF d2 = 0 /\ d3 = 0 THEN ""
                          ELSE ToString(d2) \o (IF d3 = 0 THEN "" ELSE ToString(d3))))
             \o "s"

\* {:?} of a SystemTime (unix)
SystemTimeDebug(t) ==
    "SystemTime { tv_sec: " \o ToString(t.tv_sec)
    \o ", tv_nsec: " \o ToString(t.tv_nsec) \o " }"

\* the match on action_status: the code as text, or the error in quotes
StatusText(r) == IF r.ok THEN ToString(r.code) ELSE "\"" \o r.err \o "\""

\* the format! of one status, with its trailing comma
FormatStatus(st) ==
    "{\"url\":\"" \o st.url
    \o "\", \"status\":" \o StatusText(st.action_status)
    \o ", \"response_time\":\"" \o DurationDebug(st.response_time)
    \o "\", \"timestamp\":\"" \o SystemTimeDebug(st.timestamp)
    \o "\"},"

\* String::pop: the string without its last character (nothing to remove
\* from an empty string)
Pop(str) == IF str = "" THEN "" ELSE SubSeq(str, 1, Len(str) - 1)

\* values of WebsiteStatus given to save_results_to_json
StatusSamples ==
    [url : UrlNames,
     action_status : ProbeOutcomes,
     response_time : {1, 3101},
     timestamp : {[tv_sec |-> 1700000000, tv_nsec |-> 5]}]

\* save_results_to_json is entered with some slice of statuses
InitJson ==
    /\ RunIdle
    /\ ReadIdle
    /\ statuses \in SeqsUpTo(StatusSamples, MaxStatuses)
    /\ json_string = ""
    /\ json_pc = "start"
    /\ json_i = 0

\* let mut json_string = String::from("[")
JsonNew ==
    /\ json_pc = "start"
    /\ json_string' = "["
    /\ json_pc' = "loop"
    /\ UNCHANGED <<statuses, json_i, runvars, readvars>>

\* one iteration of `for status in statuses`
JsonPushStatus ==
    /\ json_pc = "loop"
    /\ json_i < Len(statuses)
    /\ json_string' = json_string \o FormatStatus(statuses[json_i + 1])
    /\ json_i' = json_i + 1
    /\ UNCHANGED <<statuses, json_pc, runvars, readvars>>

\* json_string.pop(), after the loop
JsonPop ==
    /\ json_pc = "loop"
    /\ json_i = Len(statuses)
    /\ json_string' = Pop(json_string)
    /\ json_pc' = "close"
    /\ UNCHANGED <<statuses, json_i, runvars, readvars>>

\* json_string.push(']') and the return
JsonClose ==
    /\ json_pc = "close"
    /\ json_string' = json_string \o "]"
    /\ json_pc' = "done"
    /\ UNCHANGED <<statuses, json_i, runvars, readvars>>

NextJson == JsonNew \/ JsonPushStatus \/ JsonPop \/ JsonClose

SpecJson == InitJson /\ [][NextJson]_vars

\* ---------------------------------------------------- read_urls_from_file
MaxLines == 3   \* most lines in the file
MaxReadErrs == 2 \* most times the model follows a failing read

\* an item of reader.lines(): Ok(text), the line without its line end
Line(text) == [ok |-> TRUE, text |-> text]
\* an item of reader.lines() that is an Err because the bytes of the line
\* are not UTF-8: the line is consumed, the next item is the next line
Unreadable == [ok |-> FALSE, text |-> "stream did not contain valid UTF-8"]
\* an item of reader.lines() that is an Err because the read itself failed
\* (the path is a directory): nothing is consumed and every later call
\* of next() fails the same way
ReadFailed == [ok |-> FALSE, text |-> "Is a directory"]

\* texts of lines as reader.lines() yields them: "\n" and a "\r" right before
\* it are removed, any other character stays
LineTexts == {"", "  ", "#", "# c", " #c", "u", " u ", "\tv", "u#", "u v",
              "u\r", "\f", "w\f", "\r#"}
LineSamples == {Line(t) : t \in LineTexts} \cup {Unreadable, ReadFailed}

\* char::is_whitespace, the Unicode White_Space code points up to U+00FF:
\* U+0009..U+000D, U+0020, U+0085, U+00A0 (the code points above U+00FF with
\* the property, U+1680, U+2000..U+200A, U+2028, U+2029, U+202F, U+205F and
\* U+3000, cannot stand in a string of this module)
Whitespace == {"\t", "\n", "", "\f", "\r", " ", "", " "}

\* str::trim_start only
RECURSIVE TrimStartOnly(_)
TrimStartOnly(str) ==
    IF str # "" /\ SubSeq(str, 1, 1) \in Whitespace
    THEN TrimStartOnly(SubSeq(str, 2, Len(str)))
    ELSE str

\* str::trim: without the whitespace at both ends
RECURSIVE Trim(_)
Trim(str) ==
    IF str # "" /\ SubSeq(str, 1, 1) \in Whitespace
    THEN Trim(SubSeq(str, 2, Len(str)))
    ELSE IF str # "" /\ SubSeq(str, Len(str), Len(str)) \in Whitespace
    THEN Trim(SubSeq(str, 1, Len(str) - 1))
    ELSE str

\* line.starts_with('#')
StartsWithHash(str) == str # "" /\ SubSeq(str, 1, 1) = "#"

\* the closure of filter_map: None for a line to skip, else Some(line)
Skipped(line) == line = "" \/ StartsWithHash(line)

\* read_urls_from_file has opened the file
InitRead ==
    /\ RunIdle
    /\ JsonIdle
    /\ file_lines \in SeqsUpTo(LineSamples, MaxLines)
    /\ line_no = 0
    /\ urls_read = <<>>
    /\ read_errs = 0

\* the closure as a whole: line.ok()? gives None for an Err item, the rest
\* works on the trimmed text; <<>> is None, <<line>> is Some(line)
FilterMap(item) ==
    IF ~item.ok THEN <<>>
    ELSE LET line == Trim(item.text)
         IN  IF Skipped(line) THEN <<>> ELSE <<line>>

\* the next item goes through filter_map into the collected Vec
ReadLine ==
    /\ line_no < Len(file_lines)
    /\ file_lines[line_no + 1] # ReadFailed
    /\ urls_read' = urls_read \o FilterMap(file_lines[line_no + 1])
    /\ line_no' = line_no + 1
    /\ UNCHANGED <<file_lines, read_errs, runvars, jsonvars>>

\* the read fails: filter_map drops the Err and asks for the next item,
\* which is the same failure again; collect() never gets to the end
ReadFailsAgain ==
    /\ line_no < Len(file_lines)
    /\ file_lines[line_no + 1] = ReadFailed
    /\ read_errs < MaxReadErrs
    /\ urls_read' = urls_read \o FilterMap(file_lines[line_no + 1])
    /\ read_errs' = read_errs + 1
    /\ UNCHANGED <<file_lines, line_no, runvars, jsonvars>>

NextRead == ReadLine \/ ReadFailsAgain

SpecRead == InitRead /\ [][NextRead]_vars

\* ------------------------------------------------------ fair scheduling
\* every thread the OS keeps scheduling takes its next step, and every
\* request ends (bounded by the timeout)
MainStep == SpawnWorker \/ StartJoining \/ Join \/ DropTx \/ Recv \/ Return
WorkerStep(w) == Probe(w) \/ Sleep(w) \/ Send(w)

FairSpec ==
    /\ Init
    /\ [][Next]_vars
    /\ WF_vars(MainStep)
    /\ \A w \in 1..MaxUrls : WF_vars(WorkerStep(w))

\* ------------------------------------------------------- crashing workers
\* a worker thread panics while it processes a URL (the println! of an
\* attempt or of a send panics when stdout cannot be written): the thread
\* unwinds, its clone of tx is
\* dropped, the rest of its chunk is never looked at
WorkerPanic(w) ==
    /\ Running
    /\ w \in 1..Len(handles)
    /\ handles[w].pc \in {"attempt", "send"}
    /\ handles' = [handles EXCEPT ![w] = [@ EXCEPT !.pc = "panicked"]]
    /\ senders' = senders - 1
    /\ UNCHANGED <<urls, workers, retries, timeout, main_pc, joined, channel, results>>
    /\ UNCHANGED <<jsonvars, readvars>>

\* handle.join() gives Err for a panicked thread and unwrap() panics in the
\* main thread: its unwinding drops tx, rx and the handles, run_checks
\* returns nothing
JoinUnwrapPanics ==
    /\ main_pc = "join"
    /\ joined < Len(handles)
    /\ handles[joined + 1].pc = "panicked"
    /\ main_pc' = "panicked"
    /\ senders' = senders - 1
    /\ UNCHANGED <<urls, workers, retries, timeout, handles, joined, channel, results>>
    /\ UNCHANGED <<jsonvars, readvars>>

\* println!("Waiting for workers to complete...") panics in the main thread,
\* before any join: tx and rx are dropped by the unwinding
PrintWaitingPanics ==
    /\ main_pc = "spawn"
    /\ Len(handles) = Len(Chunks(urls, workers))
    /\ main_pc' = "panicked"
    /\ senders' = senders - 1
    /\ UNCHANGED <<urls, workers, retries, timeout, handles, joined, channel, results>>
    /\ UNCHANGED <<jsonvars, readvars>>

\* println!("All workers finished processing!") panics in the main thread,
\* after the joins and drop(tx)
PrintFinishedPanics ==
    /\ main_pc = "join"
    /\ joined = Len(handles)
    /\ main_pc' = "panicked"
    /\ senders' = senders - 1
    /\ UNCHANGED <<urls, workers, retries, timeout, handles, joined, channel, results>>
    /\ UNCHANGED <<jsonvars, readvars>>

\* tx.send(status) gives Err because rx is gone, expect("Failed to send")
\* panics in the worker thread; nobody joins it any more, its handle went
\* with the main thread's unwinding
SendFails(w) ==
    /\ Running
    /\ w \in 1..Len(handles)
    /\ handles[w].pc = "send"
    /\ ~RxAlive
    /\ handles' = [handles EXCEPT ![w] = [@ EXCEPT !.pc = "send_failed"]]
    /\ senders' = senders - 1
    /\ UNCHANGED <<urls, workers, retries, timeout, main_pc, joined, channel, results>>
    /\ UNCHANGED <<jsonvars, readvars>>

\* the panic of the main thread ends the process (exit code 101) and with it
\* every thread that is still running
ProcessExit ==
    /\ main_pc = "panicked"
    /\ main_pc' = "exited"
    /\ UNCHANGED <<urls, workers, retries, timeout, handles, joined, senders, channel, results>>
    /\ UNCHANGED <<jsonvars, readvars>>

\* thread::spawn panics in the main thread because the OS refuses a new
\* thread: the unwinding drops tx, the clone made for this chunk and rx,
\* the threads spawned so far go on
SpawnPanics ==
    /\ main_pc = "spawn"
    /\ Len(handles) < Len(Chunks(urls, workers))
    /\ main_pc' = "panicked"
    /\ senders' = senders - 1
    /\ UNCHANGED <<urls, workers, retries, timeout, handles, joined, channel, results>>
    /\ UNCHANGED <<jsonvars, readvars>>

NextCrash ==
    \/ Next
    \/ SpawnPanics
    \/ \E w \in 1..MaxUrls : WorkerPanic(w)
    \/ JoinUnwrapPanics
    \/ PrintWaitingPanics
    \/ PrintFinishedPanics
    \/ \E w \in 1..MaxUrls : SendFails(w)
    \/ ProcessExit

SpecCrash == Init /\ [][NextCrash]_vars

\* ------------------------------------------------------------ properties
Workers == 1..Len(handles)
Count(x, s) == Cardinality({i \in DOMAIN s : s[i] = x})
ResultUrls == [i \in DOMAIN results |-> results[i].url]
AllSpawned == Len(handles) = Len(Chunks(urls, workers))
Returned(h) == h.pc = "send"
AllErr(s) == \A i \in DOMAIN s : ~s[i].ok
FirstOk(s) == IF AllErr(s) THEN 0
              ELSE CHOOSE i \in DOMAIN s : s[i].ok /\ \A j \in 1..(i - 1) : ~s[j].ok
CeilDiv(a, b) == (a + b - 1) \div b
RECURSIVE Concat(_)
Concat(ss) == IF ss = <<>> THEN <<>> ELSE Head(ss) \o Concat(Tail(ss))
RECURSIVE SentBy(_)
SentBy(hs) == IF hs = <<>> THEN 0 ELSE (Head(hs).idx - 1) + SentBy(Tail(hs))
Active == {w \in Workers : handles[w].pc \notin {"finished", "panicked", "send_failed"}}

\* C1: for a non-empty URL list, the list run_checks returns has exactly one
\* result per input URL: same length, and every URL occurs in the results as
\* often as in the input.
C1_OneResultPerUrl ==
    (main_pc = "done" /\ urls # <<>>) =>
        /\ Len(results) = Len(urls)
        /\ \A u \in UrlNames : Count(u, ResultUrls) = Count(u, urls)

C1_Witness ==
    /\ main_pc = "done"
    /\ Len(urls) = 3 /\ urls[1] = urls[2] /\ urls[3] # urls[1]
    /\ workers = 2
    /\ \E i, j \in DOMAIN results :
         results[i].action_status.ok /\ ~results[j].action_status.ok

\* C2: nothing is received, the "All workers finished processing!" marker is
\* not passed and run_checks does not return before every chunk has a thread
\* and every thread has sent the result of every URL of its chunk.
C2_NoPartialResults ==
    (main_pc \in {"collect", "done"} \/ results # <<>>) =>
        /\ AllSpawned
        /\ \A w \in Workers :
             handles[w].pc = "finished" /\ handles[w].idx = Len(handles[w].chunk) + 1
        /\ Len(channel) + Len(results) = Len(urls)

C2_Witness ==
    /\ main_pc = "collect"
    /\ Len(handles) >= 2
    /\ Len(results) = 1
    /\ Len(channel) >= 1

\* C3: check_website never makes more than retries + 1 attempts, and when it
\* returns after only failed attempts it has made exactly retries + 1 of
\* them and its result is the error of the last one.
C3_AtMostRetriesPlusOne ==
    \A w \in Workers :
        LET h == handles[w] IN
        /\ Len(h.probes) <= retries + 1
        /\ (Returned(h) /\ AllErr(h.probes)) =>
               /\ Len(h.probes) = retries + 1
               /\ h.status.action_status = h.probes[retries + 1]
               /\ ~h.status.action_status.ok

C3_Witness ==
    \E w \in Workers :
        LET h == handles[w] IN
        /\ Returned(h)
        /\ retries = 2
        /\ Len(h.probes) = 3
        /\ AllErr(h.probes)
        /\ h.probes[2] # h.probes[3]
        /\ h.status.action_status = h.probes[3]

\* C6: an attempt that gets an HTTP answer, whatever the status code, is the
\* last attempt for its URL: check_website returns on it with that code, so
\* every attempt that was followed by another one was a transport failure.
C6_AnyStatusCodeEndsLoop ==
    \A w \in Workers :
        LET h == handles[w] IN
        \A i \in DOMAIN h.probes :
            h.probes[i].ok =>
                /\ i = Len(h.probes)
                /\ Returned(h)
                /\ h.status.action_status = Ok(h.probes[i].code)

C6_Witness ==
    \E w \in Workers :
        LET h == handles[w] IN
        /\ Returned(h)
        /\ retries >= 1
        /\ h.probes = <<Ok(503)>>
        /\ h.status.action_status = Ok(503)

\* C7: when the first attempt that succeeds is the k-th, check_website
\* returns after exactly k attempts with the code of the k-th attempt, and
\* its response_time covers the k - 1 retry delays of 100 ms (k = 2: at
\* least 100 ms).
C7_SuccessOnKthAttempt ==
    \A w \in Workers :
        LET h == handles[w]
            k == FirstOk(h.probes)
        IN  (Returned(h) /\ k > 0) =>
               /\ k <= retries + 1
               /\ Len(h.probes) = k
               /\ h.status.action_status = h.probes[k]
               /\ h.status.response_time >= (k - 1) * 100

C7_Witness ==
    \E w \in Workers :
        LET h == handles[w] IN
        /\ Returned(h)
        /\ Len(h.probes) = 2
        /\ ~h.probes[1].ok /\ h.probes[2].ok
        /\ h.status.action_status.ok
        /\ h.status.response_time >= 100

\* C8: the channel has no sender left only after every thread was joined,
\* and run_checks always comes to return, with every message that was sent
\* in the list it returns.
C8_JoinBeforeCloseAndReturn ==
    /\ [](senders = 0 => (AllSpawned /\ joined = Len(handles)))
    /\ <>[](/\ main_pc = "done"
            /\ channel = <<>>
            /\ Len(results) = SentBy(handles))

C8_Witness ==
    /\ main_pc = "done"
    /\ senders = 0
    /\ Len(handles) >= 2
    /\ Len(results) = 3

\* C10: with an empty URL list no thread is ever spawned, nothing is probed
\* or sent, and run_checks returns the empty list.
C10_EmptyListNoWork ==
    /\ [](urls = <<>> => (handles = <<>> /\ channel = <<>> /\ results = <<>>))
    /\ ((urls = <<>>) ~> (main_pc = "done" /\ results = <<>>))

C10_Witness ==
    /\ urls = <<>>
    /\ main_pc = "done"
    /\ handles = <<>>
    /\ results = <<>>

\* C4 (as claimed): at every moment at most `workers` threads are spawned
\* and not yet finished.
C4_AtMostWorkersActive == Cardinality(Active) <= workers

\* C5 (as claimed): the chunks are contiguous, disjoint, cover the list in
\* input order, there are at most `workers` of them, and each has
\* ceil(K / workers) URLs (the last one possibly fewer).
C5_ChunkSizeIsCeilKOverW ==
    (main_pc # "spawn" /\ urls # <<>>) =>
        /\ Concat([w \in Workers |-> handles[w].chunk]) = urls
        /\ Len(handles) <= workers
        /\ \A w \in Workers :
             /\ Len(handles[w].chunk) <= CeilDiv(Len(urls), workers)
             /\ w < Len(handles) => Len(handles[w].chunk) = CeilDiv(Len(urls), workers)

\* C9 (as claimed): a worker that panics does not take the run down: the
\* main thread does not panic, and when run_checks is over every result that
\* was sent is in the returned list and no URL of a chunk was skipped.
C9_WorkerCrashIsolated ==
    (\E w \in Workers : handles[w].pc = "panicked") =>
        /\ main_pc \notin {"panicked", "exited"}
        /\ main_pc = "done" =>
             /\ Len(results) = SentBy(handles)
             /\ \A w \in Workers : handles[w].idx = Len(handles[w].chunk) + 1

\* ------------------------------------------- properties of the JSON text
Char(str, i) == SubSeq(str, i, i)

\* the positions of the commas of str that are outside quotes and braces
\* (a position is inside quotes when an odd number of quotes precedes it)
TopCommas(str) ==
    LET quotes == {j \in 1..Len(str) : Char(str, j) = "\""}
        InQuotes(i) == Cardinality({j \in quotes : j < i}) % 2 = 1
        opens == {j \in 1..Len(str) : Char(str, j) = "{" /\ ~InQuotes(j)}
        closes == {j \in 1..Len(str) : Char(str, j) = "}" /\ ~InQuotes(j)}
        Depth(i) == Cardinality({j \in opens : j < i}) - Cardinality({j \in closes : j < i})
    IN  {i \in 1..Len(str) : Char(str, i) = "," /\ ~InQuotes(i) /\ Depth(i) = 0}

\* the pieces of str between those commas
SplitTop(str) ==
    LET cs == TopCommas(str)
        Nth(k) == CHOOSE i \in cs : Cardinality({j \in cs : j < i}) = k - 1
        from(k) == IF k = 1 THEN 1 ELSE Nth(k - 1) + 1
        to(k) == IF k = Cardinality(cs) + 1 THEN Len(str) ELSE Nth(k) - 1
    IN  [k \in 1..(Cardinality(cs) + 1) |-> SubSeq(str, from(k), to(k))]

Bracketed(str, open, close) ==
    Len(str) >= 2 /\ Char(str, 1) = open /\ Char(str, Len(str)) = close
Inside(str) == SubSeq(str, 2, Len(str) - 1)
ArrayElements(str) == IF Inside(str) = "" THEN <<>> ELSE SplitTop(Inside(str))
StripSpace(str) == IF str # "" /\ Char(str, 1) = " " THEN SubSeq(str, 2, Len(str)) ELSE str
\* the text of the n-th of the members ms when it has the given key, else ""
MemberText(ms, n, key) ==
    LET m   == StripSpace(ms[n])
        pre == "\"" \o key \o "\":"
    IN  IF Len(m) > Len(pre) /\ SubSeq(m, 1, Len(pre)) = pre
        THEN SubSeq(m, Len(pre) + 1, Len(m)) ELSE ""
IsQuoted(str) == Bracketed(str, "\"", "\"")
ObjectMatches(obj, st) ==
    /\ Bracketed(obj, "{", "}")
    /\ LET ms == SplitTop(Inside(obj))
       IN  /\ Len(ms) = 4
           /\ MemberText(ms, 1, "url") = "\"" \o st.url \o "\""
           /\ MemberText(ms, 2, "status") =
                 (IF st.action_status.ok THEN ToString(st.action_status.code)
                  ELSE "\"" \o st.action_status.err \o "\"")
           /\ IsQuoted(MemberText(ms, 3, "response_time"))
           /\ IsQuoted(MemberText(ms, 4, "timestamp"))

\* C11 (as claimed): for an empty slice save_results_to_json returns "[]".
C11_EmptyGivesEmptyArray ==
    (json_pc = "done" /\ statuses = <<>>) => json_string = "[]"

\* C12 (as claimed): for a slice of K statuses save_results_to_json returns
\* one bracketed array of exactly K comma-separated objects without a
\* trailing comma, the i-th being the i-th status with the four members url,
\* status, response_time, timestamp, status being the bare code for Ok and
\* the quoted error text for Err.
C12_ArrayOfKObjects ==
    json_pc = "done" =>
        /\ Bracketed(json_string, "[", "]")
        /\ LET elems == ArrayElements(json_string)
           IN  /\ Len(elems) = Len(statuses)
               /\ \A i \in DOMAIN statuses :
                    i <= Len(elems) => ObjectMatches(elems[i], statuses[i])

\* the same for the slices that are not empty
C12_NonEmptyArrayOfKObjects == statuses # <<>> => C12_ArrayOfKObjects

RECURSIVE SeqSum(_)
SeqSum(ts) == IF ts = <<>> THEN 0 ELSE Head(ts) + SeqSum(Tail(ts))

\* C13: the response_time of a returned status is the time of all the
\* attempts made for the URL plus all the sleeps between them: it is not
\* negative, at least (attempts - 1) retry delays, and more than the last
\* attempt alone once there was a retry.
C13_ElapsedCoversAllAttempts ==
    \A w \in Workers :
        LET h == handles[w] IN
        Returned(h) =>
            /\ h.status.response_time = SeqSum(h.times) + h.slept
            /\ h.status.response_time >= 0
            /\ h.status.response_time >= (Len(h.probes) - 1) * RetryDelay
            /\ Len(h.probes) >= 2 =>
                   h.status.response_time > h.times[Len(h.times)]

C13_Witness ==
    \E w \in Workers :
        LET h == handles[w] IN
        /\ Returned(h)
        /\ Len(h.probes) = 2
        /\ h.probes[1] = Err("timeout")
        /\ h.probes[2] = Ok(200)
        /\ h.times = <<2, 1>>
        /\ h.slept = RetryDelay + 1
        /\ h.status.response_time = 2 + 1 + h.slept

\* ------------------------------------------ properties of the URL reader
AllWhitespace(str) == \A i \in 1..Len(str) : Char(str, i) \in Whitespace
\* a line with a first visible character, which is not '#'
IsUrlLine(str) ==
    \E i \in 1..Len(str) :
        /\ Char(str, i) \notin Whitespace
        /\ Char(str, i) # "#"
        /\ AllWhitespace(SubSeq(str, 1, i - 1))
\* out is str without the whitespace around it
IsTrimOf(out, str) ==
    /\ out # ""
    /\ Char(out, 1) \notin Whitespace
    /\ Char(out, Len(out)) \notin Whitespace
    /\ \E a \in 1..Len(str) :
          /\ a + Len(out) - 1 <= Len(str)
          /\ SubSeq(str, a, a + Len(out) - 1) = out
          /\ AllWhitespace(SubSeq(str, 1, a - 1))
          /\ AllWhitespace(SubSeq(str, a + Len(out), Len(str)))
UrlLinesUpTo(n) == {i \in 1..n : file_lines[i].ok /\ IsUrlLine(file_lines[i].text)}

\* C14: after any number of lines, the collected Vec holds exactly the URL
\* lines read so far (readable, neither blank nor comment), each without
\* its surrounding whitespace, in file order.
C14_OnlyTrimmedUrlLines ==
    LET kept == UrlLinesUpTo(line_no)
        Nth(k) == CHOOSE i \in kept : Cardinality({j \in kept : j < i}) = k - 1
    IN  /\ Len(urls_read) = Cardinality(kept)
        /\ \A k \in DOMAIN urls_read :
             /\ k <= Cardinality(kept) => IsTrimOf(urls_read[k], file_lines[Nth(k)].text)
             /\ Char(urls_read[k], 1) # "#"

C14_Witness ==
    /\ line_no = Len(file_lines)
    /\ file_lines = <<Line("# c"), Line(" u "), Line("u\r")>>
    /\ urls_read = <<"u", "u">>

\* C15: inside one worker everything is sequential: an attempt is made only
\* when the thread is at the top of the loop and every earlier attempt for
\* the URL has completed and failed, and the thread goes to the next URL of
\* its chunk only by sending the status of the current one; a step changes
\* the state of one thread only.
C15_SequentialWithinWorker ==
    [][/\ \A w \in Workers :
            LET h  == handles[w]
                h2 == handles'[w]
            IN  /\ Len(h2.probes) > Len(h.probes) =>
                      /\ h.pc = "attempt"
                      /\ Len(h2.probes) = Len(h.probes) + 1
                      /\ AllErr(h.probes)
                      /\ h2.idx = h.idx
                /\ h2.idx > h.idx =>
                      /\ h.pc = "send"
                      /\ h2.idx = h.idx + 1
                      /\ h.status.url = Url(h)
                      /\ channel' = Append(channel, h.status)
       /\ Cardinality({w \in Workers : handles'[w] # handles[w]}) <= 1
      ]_vars

C15_Witness ==
    \E w \in Workers :
        LET h == handles[w] IN
        /\ h.idx = 2
        /\ h.pc = "attempt"
        /\ Len(h.probes) = 1
        /\ Len(channel) = 1
        /\ channel[1].url = h.chunk[1]

\* C16: check_website sleeps exactly once after each failed attempt that is
\* followed by another one: while it sleeps the last attempt has failed and
\* was not the last allowed one, at the top of the loop and at the return the
\* number of sleeps is the number of attempts made before, and with
\* retries = 0 it never sleeps.
C16_SleepsBetweenAttemptsOnly ==
    \A w \in Workers :
        LET h == handles[w] IN
        /\ h.pc = "sleep" =>
              /\ h.probes # <<>>
              /\ ~h.probes[Len(h.probes)].ok
              /\ Len(h.probes) <= retries
              /\ h.sleeps = Len(h.probes) - 1
        /\ h.pc = "attempt" => h.sleeps = Len(h.probes)
        /\ Returned(h) => h.sleeps = Len(h.probes) - 1
        /\ retries = 0 => (h.sleeps = 0 /\ h.pc # "sleep")

C16_Witness ==
    \E w \in Workers :
        LET h == handles[w] IN
        /\ Returned(h)
        /\ retries = 3
        /\ Len(h.probes) = 3
        /\ h.sleeps = 2
        /\ h.probes[3].ok

\* C17: run_checks spawns exactly ceil(K / workers) threads, every thread
\* gets at most `workers` URLs and every thread but the last exactly
\* `workers`.
C17_CeilKOverWThreads ==
    /\ Len(handles) <= CeilDiv(Len(urls), workers)
    /\ main_pc \in {"join", "collect", "done"} =>
           Len(handles) = CeilDiv(Len(urls), workers)
    /\ \A w \in Workers :
           /\ Len(handles[w].chunk) <= workers
           /\ Len(handles[w].chunk) >= 1
           /\ w < CeilDiv(Len(urls), workers) => Len(handles[w].chunk) = workers

C17_Witness ==
    /\ main_pc = "join"
    /\ Len(urls) = 3
    /\ workers = 2
    /\ Len(handles) = 2
    /\ Len(handles[1].chunk) = 2
    /\ Len(handles[2].chunk) = 1

\* r is an interleaving of the sequences cs that keeps the order of each
RECURSIVE IsMerge(_, _)
IsMerge(r, cs) ==
    IF r = <<>> THEN \A w \in DOMAIN cs : cs[w] = <<>>
    ELSE \E w \in DOMAIN cs :
            /\ cs[w] # <<>>
            /\ Head(cs[w]) = Head(r)
            /\ IsMerge(Tail(r), [cs EXCEPT ![w] = Tail(cs[w])])
UrlsOf(sts) == [i \in DOMAIN sts |-> sts[i].url]
SentUrls(h) == SubSeq(h.chunk, 1, h.idx - 1)

\* C18: the statuses received so far followed by those still in the channel
\* are an interleaving of what the threads have sent that keeps, for every
\* thread, the order of the URLs of its chunk; so the list run_checks returns
\* has the URLs of one chunk in input order.
C18_PerWorkerOrderKept ==
    /\ IsMerge(UrlsOf(results \o channel), [w \in Workers |-> SentUrls(handles[w])])
    /\ main_pc = "done" =>
           IsMerge(ResultUrls, [w \in Workers |-> handles[w].chunk])

C18_Witness ==
    /\ main_pc = "done"
    /\ urls = <<"a", "b", "b">>
    /\ workers = 2
    /\ ResultUrls = <<"b", "a", "b">>

\* C19: no thread is ever about to send while the receiver is gone and no
\* thread has panicked on expect("Failed to send"), and the receiver is read
\* only when every chunk has a thread and every thread has ended and been
\* joined.
C19_ReceiverOutlivesSenders ==
    /\ \A w \in Workers : handles[w].pc = "send" => RxAlive
    /\ \A w \in Workers : handles[w].pc # "send_failed"
    /\ (main_pc \in {"collect", "done"} \/ results # <<>>) =>
           /\ joined = Len(handles)
           /\ \A w \in Workers : handles[w].pc = "finished"
           /\ senders <= 1

====
